---- MODULE Spec2Model ----
(***************************************************************************)
(* A model of M3UtoStrm.py: the title normaliser, the library scanner, the *)
(* playlist classifier, the creation pass (a thread pool of process_entry  *)
(* tasks feeding the cache in the main thread) and the cleanup passes of   *)
(* main().                                                                 *)
(*                                                                         *)
(* A Python str is a sequence of one-character strings; a path is a        *)
(* sequence of components (each a str) below OUTPUT_DIR.                   *)
(***************************************************************************)
EXTENDS Integers, Sequences, FiniteSets, TLC

(***************************************************************************)
(* Characters                                                              *)
(***************************************************************************)
UpperCase == <<"A","B","C","D","E","F","G","H","I","J","K","L","M",
               "N","O","P","Q","R","S","T","U","V","W","X","Y","Z">>

LowerCase == <<"a","b","c","d","e","f","g","h","i","j","k","l","m",
               "n","o","p","q","r","s","t","u","v","w","x","y","z">>

Digits == {"0","1","2","3","4","5","6","7","8","9"}

IsDigit(c) == c \in Digits

Letters == {UpperCase[i] : i \in 1..26} \cup {LowerCase[i] : i \in 1..26}

IsLetter(c) == c \in Letters

\* \w of the re module: letters (the accented letter "e'", U+00E9, included),
\* digits and the underscore
IsWord(c) == IsLetter(c) \/ IsDigit(c) \/ c = "_" \/ c = "e'"

\* \s of the re module (the model's texts hold blanks and tabs only)
IsSpace(c) == c \in {" ", "\t"}

\* the lower-case letter of every upper-case letter
ToLower == [c \in {UpperCase[i] : i \in 1..26} |-> LowerCase[CHOOSE i \in 1..26 : UpperCase[i] = c]]

LowerChar(c) == IF c \in DOMAIN ToLower THEN ToLower[c] ELSE c

\* str.lower()
Lower(s) == [i \in 1..Len(s) |-> LowerChar(s[i])]

\* s[i:j] with 1-based inclusive bounds, empty when i > j
Slice(s, i, j) == IF i > j THEN << >> ELSE SubSeq(s, i, j)

\* s.startswith(p, i-1), case-insensitively when ci
StartsAt(s, i, p, ci) ==
    /\ i + Len(p) - 1 <= Len(s)
    /\ \A k \in 1..Len(p) :
          IF ci THEN LowerChar(s[i + k - 1]) = LowerChar(p[k]) ELSE s[i + k - 1] = p[k]

\* p in s
Contains(s, p) == \E i \in 1..(Len(s) + 1) : StartsAt(s, i, p, FALSE)

\* the number of characters from position i on that satisfy the class
RECURSIVE DigitRun(_, _)
DigitRun(s, i) == IF i <= Len(s) /\ IsDigit(s[i]) THEN 1 + DigitRun(s, i + 1) ELSE 0

RECURSIVE SpaceRun(_, _)
SpaceRun(s, i) == IF i <= Len(s) /\ IsSpace(s[i]) THEN 1 + SpaceRun(s, i + 1) ELSE 0

\* str.strip()
RECURSIVE LStrip(_)
LStrip(s) == IF s # << >> /\ IsSpace(Head(s)) THEN LStrip(Tail(s)) ELSE s

RECURSIVE RStrip(_)
RStrip(s) == IF s # << >> /\ IsSpace(s[Len(s)]) THEN RStrip(SubSeq(s, 1, Len(s) - 1)) ELSE s

Strip(s) == RStrip(LStrip(s))

\* re.sub(r"\s+", " ", s)
RECURSIVE CollapseSpaces(_)
CollapseSpaces(s) ==
    IF s = << >> THEN << >>
    ELSE IF IsSpace(Head(s))
         THEN <<" ">> \o CollapseSpaces(Slice(s, SpaceRun(s, 1) + 1, Len(s)))
         ELSE <<Head(s)>> \o CollapseSpaces(Tail(s))

\* str.zfill(2)
zfill2(s) == IF Len(s) >= 2 THEN s ELSE IF Len(s) = 1 THEN <<"0">> \o s ELSE <<"0", "0">>

(***************************************************************************)
(* Title normaliser                                                        *)
(***************************************************************************)
\* the first index k >= i with s[k] = c, or 0
RECURSIVE FirstFrom(_, _, _)
FirstFrom(s, i, c) ==
    IF i > Len(s) THEN 0 ELSE IF s[i] = c THEN i ELSE FirstFrom(s, i + 1, c)

\* r"\(\d{4}\)" matches at position i
YearAt(s, i) ==
    /\ i + 5 <= Len(s)
    /\ s[i] = "("
    /\ \A k \in 1..4 : IsDigit(s[i + k])
    /\ s[i + 5] = ")"

\* re.sub(r"(\(\d{4}\)).*$", r"\1", text): the text up to the first year from
\* position i on
RECURSIVE StripAfterYearFrom(_, _)
StripAfterYearFrom(text, i) ==
    IF i > Len(text) THEN text
    ELSE IF YearAt(text, i) THEN SubSeq(text, 1, i + 5)
    ELSE StripAfterYearFrom(text, i + 1)

strip_after_year(text) == StripAfterYearFrom(text, 1)

\* r"\btt\d+\b" matches with its first t at position j and its last digit
\* at position e
ImdbCoreAt(s, j, e) ==
    /\ StartsAt(s, j, <<"t", "t">>, TRUE)
    /\ e >= j + 2
    /\ (j = 1 \/ ~IsWord(s[j - 1]))
    /\ (e = Len(s) \/ ~IsWord(s[e + 1]))

\* the index of the last character of that match with its optional closing
\* bracket, or 0
ImdbEndAt(s, j, e) ==
    IF j > Len(s) \/ ~ImdbCoreAt(s, j, e) THEN 0
    ELSE IF e < Len(s) /\ s[e + 1] \in {"}", ")"} THEN e + 1 ELSE e

ImdbFrom(s, j) == ImdbEndAt(s, j, j + 1 + DigitRun(s, j + 2))

\* r"[\{\(]?\btt\d+\b[\}\)]?" matches at position i: the index of its last
\* character, or 0
ImdbMatchEnd(s, i) == ImdbFrom(s, IF s[i] \in {"{", "("} THEN i + 1 ELSE i)

RECURSIVE RemoveImdbFrom(_, _)
\* e is ImdbMatchEnd(s, i)
RemoveImdbStep(s, i, e) ==
    IF e > 0 THEN RemoveImdbFrom(s, e + 1) ELSE <<s[i]>> \o RemoveImdbFrom(s, i + 1)

RemoveImdbFrom(s, i) ==
    IF i > Len(s) THEN << >> ELSE RemoveImdbStep(s, i, ImdbMatchEnd(s, i))

remove_imdb_id(title) == RemoveImdbFrom(title, 1)

\* unicodedata.normalize('NFKD', c).encode('ascii', 'ignore').decode('ascii'):
\* an accented letter keeps its base letter, any other non-ASCII character
\* is dropped.  "e'" stands for U+00E9 and "--" for U+2014.
NfkdAscii(c) == IF c = "e'" THEN <<"e">> ELSE IF c = "--" THEN << >> ELSE <<c>>

RECURSIVE AsciiFold(_)
AsciiFold(s) == IF s = << >> THEN << >> ELSE NfkdAscii(Head(s)) \o AsciiFold(Tail(s))

\* re.sub(r"[^\w\s\(\)-]", "", s)
KeepTitleChars(s) == SelectSeq(s, LAMBDA c : IsWord(c) \/ IsSpace(c) \/ c \in {"(", ")", "-"})

sanitize_title(title) ==
    Strip(CollapseSpaces(KeepTitleChars(remove_imdb_id(AsciiFold(Strip(title))))))

NoTvMatch == [ok |-> FALSE, season |-> << >>, episode |-> << >>, end |-> 0]

\* tv_pattern = (?i)S(?:eason)?\s*(\d{1,4})\s*E(?:pisode)?\s*(\d{1,4}) matched
\* at position i, one operator per piece of the pattern.  A season of more
\* than four digits cannot be followed by \s*E, an episode keeps its first
\* four digits.
\* (\d{1,4}) of the episode: its n2 digits start at j8
TvEpisode(s, season, j8, n2) ==
    IF n2 < 1 THEN NoTvMatch
    ELSE [ok |-> TRUE, season |-> season,
          episode |-> SubSeq(s, j8, j8 + (IF n2 > 4 THEN 4 ELSE n2) - 1),
          end |-> j8 + (IF n2 > 4 THEN 4 ELSE n2) - 1]

TvSpaces2(s, season, j7) == TvEpisode(s, season, j7 + SpaceRun(s, j7), DigitRun(s, j7 + SpaceRun(s, j7)))

\* E(?:pisode)? at j5
TvE(s, season, j5) ==
    IF j5 > Len(s) \/ LowerChar(s[j5]) # "e" THEN NoTvMatch
    ELSE TvSpaces2(s, season,
                   IF StartsAt(s, j5 + 1, <<"p","i","s","o","d","e">>, TRUE) THEN j5 + 7 ELSE j5 + 1)

\* (\d{1,4}) of the season: its n1 digits start at j3
TvSeason(s, j3, n1) ==
    IF n1 < 1 \/ n1 > 4 THEN NoTvMatch
    ELSE TvE(s, SubSeq(s, j3, j3 + n1 - 1), j3 + n1 + SpaceRun(s, j3 + n1))

TvSpaces1(s, j2) == TvSeason(s, j2 + SpaceRun(s, j2), DigitRun(s, j2 + SpaceRun(s, j2)))

TvMatchAt(s, i) ==
    IF i > Len(s) \/ LowerChar(s[i]) # "s" THEN NoTvMatch
    ELSE TvSpaces1(s, IF StartsAt(s, i + 1, <<"e","a","s","o","n">>, TRUE) THEN i + 6 ELSE i + 1)

RECURSIVE TvSearchFrom(_, _)
\* m is TvMatchAt(s, i)
TvSearchStep(s, i, m) == IF m.ok THEN m ELSE TvSearchFrom(s, i + 1)

\* tv_pattern.search(s): the leftmost match from position i on
TvSearchFrom(s, i) == IF i > Len(s) THEN NoTvMatch ELSE TvSearchStep(s, i, TvMatchAt(s, i))

TvSearch(s) == TvSearchFrom(s, 1)

RECURSIVE TvSubFrom(_, _)
\* m is TvMatchAt(s, i)
TvSubStep(s, i, m) ==
    IF m.ok THEN <<" ">> \o TvSubFrom(s, m.end + 1) ELSE <<s[i]>> \o TvSubFrom(s, i + 1)

\* tv_pattern.sub(" ", s)
TvSubFrom(s, i) == IF i > Len(s) THEN << >> ELSE TvSubStep(s, i, TvMatchAt(s, i))

\* re.sub(r"(\[.*?\]|\{.*?\}|\(\d{4}\))", "", s)
RECURSIVE RemoveTagsFrom(_, _)
RemoveTagsFrom(s, i) ==
    IF i > Len(s) THEN << >>
    ELSE IF s[i] = "[" /\ FirstFrom(s, i + 1, "]") > 0
         THEN RemoveTagsFrom(s, FirstFrom(s, i + 1, "]") + 1)
    ELSE IF s[i] = "{" /\ FirstFrom(s, i + 1, "}") > 0
         THEN RemoveTagsFrom(s, FirstFrom(s, i + 1, "}") + 1)
    ELSE IF YearAt(s, i) THEN RemoveTagsFrom(s, i + 6)
    ELSE <<s[i]>> \o RemoveTagsFrom(s, i + 1)

\* re.sub(r"\(\d{4}\)", "", s)
RECURSIVE RemoveYearsFrom(_, _)
RemoveYearsFrom(s, i) ==
    IF i > Len(s) THEN << >>
    ELSE IF YearAt(s, i) THEN RemoveYearsFrom(s, i + 6)
    ELSE <<s[i]>> \o RemoveYearsFrom(s, i + 1)

\* the value (None, None, None)
NoParse == [ok |-> FALSE, show_name |-> << >>, season_num |-> << >>, episode_num |-> << >>]

\* lines 100-102: cleaned is the text without its markers
ShowName(cleaned) ==
    Lower(Strip(CollapseSpaces(SelectSeq(
        IF FirstFrom(cleaned, 1, "-") > 0
        THEN SubSeq(cleaned, 1, FirstFrom(cleaned, 1, "-") - 1) ELSE cleaned,
        LAMBDA c : IsWord(c) \/ IsSpace(c) \/ c = "-"))))

\* lines 94-104: cleaned is the name without its tags, match the first marker
ParseCleaned(cleaned, match) ==
    IF ~match.ok THEN NoParse
    ELSE [ok |-> TRUE, show_name |-> ShowName(Strip(TvSubFrom(cleaned, 1))),
          season_num |-> match.season, episode_num |-> match.episode]

ParseTags(cleaned) == ParseCleaned(cleaned, TvSearch(cleaned))

parse_tv_filename(filename) == ParseTags(RemoveTagsFrom(filename, 1))

\* the value (None, None, None)
NoDetails == [ok |-> FALSE, show_folder_name |-> << >>, season_folder_name |-> << >>,
              episode_str |-> << >>]

\* lines 114-118
DetailsOf(show_folder_name, match) ==
    [ok |-> TRUE, show_folder_name |-> show_folder_name,
     season_folder_name |-> <<"S","e","a","s","o","n"," ">> \o match.season,
     episode_str |-> show_folder_name \o <<" ", "S">> \o match.season \o <<"E">> \o match.episode]

\* lines 108-113: title is the title without its years, match the first marker
DetailsMatch(title, match) ==
    IF ~match.ok THEN NoDetails
    ELSE DetailsOf(sanitize_title(Strip(TvSubFrom(title, 1))), match)

DetailsYearless(title) == DetailsMatch(title, TvSearch(title))

extract_tv_details(title) == DetailsYearless(Strip(RemoveYearsFrom(title, 1)))

\* re.match(r"(.*?)[\s\(\[](\d{4})[\)\]]$", title) with n = len(title);
\* year = << >> stands for None
MovieDetails(title, n) ==
    IF /\ n >= 6
       /\ title[n] \in {")", "]"}
       /\ \A k \in 1..4 : IsDigit(title[n - k])
       /\ (IsSpace(title[n - 5]) \/ title[n - 5] \in {"(", "["})
    THEN [name |-> sanitize_title(Slice(title, 1, n - 6)), year |-> SubSeq(title, n - 4, n - 1)]
    ELSE [name |-> sanitize_title(title), year |-> << >>]

extract_movie_details(title) == MovieDetails(title, Len(title))

tv_key(show_name, season_num, episode_num) ==
    Lower(sanitize_title(show_name)) \o <<" ", "s">> \o zfill2(season_num)
        \o <<" ", "e">> \o zfill2(episode_num)

\* the unpadded key that the scanner, process_entry and
\* normalize_title_for_cleanup build with an f-string
raw_key(show_name, season_num, episode_num) ==
    Lower(sanitize_title(show_name)) \o <<" ", "s">> \o season_num \o <<" ", "e">> \o episode_num

\* parsed is parse_tv_filename(title)
NormalizeParsed(title, parsed) ==
    IF parsed.ok
    THEN raw_key(parsed.show_name, parsed.season_num, parsed.episode_num)
    ELSE Lower(sanitize_title(strip_after_year(title)))

normalize_title_for_cleanup(title) == NormalizeParsed(title, parse_tv_filename(title))

(***************************************************************************)
(* Configuration (config.json) and the output roots                       *)
(***************************************************************************)
TV_GROUP_KEYWORDS == {<<"t","v">>}

DOC_GROUP_KEYWORDS == {<<"d","o","c">>}

MOVIE_GROUP_KEYWORDS == {<<"m","o","v","i","e">>}

\* config["ignore_keywords"]["tvshows"] and ["movies"]
IGNORE_TVSHOWS == {<<"z">>}

IGNORE_MOVIES == {<<"C","A","M">>}

MOVIES_DIR == <<"M","o","v","i","e","s">>

TVSHOWS_DIR == <<"T","V"," ","S","h","o","w","s">>

DOCS_DIR == <<"D","o","c","u","m","e","n","t","a","r","i","e","s">>

\* the three roots as paths below OUTPUT_DIR
Roots == {<<MOVIES_DIR>>, <<TVSHOWS_DIR>>, <<DOCS_DIR>>}

StrmExt == <<".","s","t","r","m">>

video_extensions == {<<".","m","p","4">>, <<".","m","k","v">>, <<".","a","v","i">>,
                     <<".","m","o","v">>, <<".","f","l","v">>, <<".","w","m","v">>,
                     <<".","m","p","g">>, <<".","m","p","e","g">>}

(***************************************************************************)
(* Paths                                                                   *)
(***************************************************************************)
\* os.path.join of components: an empty component adds nothing
Join(parts) == SelectSeq(parts, LAMBDA c : c # << >>)

\* os.path.dirname
Dirname(path) == Slice(path, 1, Len(path) - 1)

\* d is path or one of its ancestors
IsPrefix(d, path) == Len(d) <= Len(path) /\ SubSeq(path, 1, Len(d)) = d

\* the folders os.makedirs(folder, exist_ok=True) makes sure of
Ancestors(folder) == {SubSeq(folder, 1, k) : k \in 1..Len(folder)}

\* the last k <= i with name[k] = "." that follows a character other than a
\* dot, or len(name) + 1
RECURSIVE SplitFrom(_, _)
SplitFrom(name, i) ==
    IF i < 2 THEN Len(name) + 1
    ELSE IF name[i] = "." /\ (\E m \in 1..(i - 1) : name[m] # ".") THEN i
    ELSE SplitFrom(name, i - 1)

\* os.path.splitext(name) with its split at position k
SplitParts(name, k) == [base |-> Slice(name, 1, k - 1), ext |-> Slice(name, k, Len(name))]

splitext(name) == SplitParts(name, SplitFrom(name, Len(name)))

\* filename.lower().endswith('.strm')
IsStrm(name) ==
    /\ Len(name) >= Len(StrmExt)
    /\ Lower(SubSeq(name, Len(name) - Len(StrmExt) + 1, Len(name))) = StrmExt

(***************************************************************************)
(* Library scanner                                                         *)
(***************************************************************************)
\* lines 217-231: the key of a file below a "tv shows" folder; parsed is
\* parse_tv_filename(name)
ScanEpisode(parsed) ==
    IF parsed.ok /\ parsed.show_name # << >> /\ parsed.season_num # << >>
                 /\ parsed.episode_num # << >>
    THEN {Lower(raw_key(parsed.show_name, parsed.season_num, parsed.episode_num))}
    ELSE {}

\* lines 215-232 with name, ext = os.path.splitext(file)
ScanParts(root, parts) ==
    IF Lower(parts.ext) \notin video_extensions THEN {}
    ELSE IF Contains(Lower(root), <<"t","v"," ","s","h","o","w","s">>)
         THEN ScanEpisode(parse_tv_filename(parts.base))
    ELSE {Lower(Lower(sanitize_title(strip_after_year(parts.base))))}

\* the key one media file [root, file] adds to the set, as a set of 0 or 1 key
ScanFile(f) == ScanParts(f.root, splitext(f.file))

\* directory: the media files below EXISTING_MEDIA_DIR
build_existing_media_cache(directory) == UNION {ScanFile(f) : f \in directory}

(***************************************************************************)
(* Playlist classifier                                                     *)
(***************************************************************************)
Category(group) ==
    IF \E k \in TV_GROUP_KEYWORDS : Contains(group, k) THEN "tvshow"
    ELSE IF \E k \in DOC_GROUP_KEYWORDS : Contains(group, k) THEN "documentary"
    ELSE IF \E k \in MOVIE_GROUP_KEYWORDS : Contains(group, k) THEN "movie"
    ELSE "movie"

\* one #EXTINF block [group, title, url] as a classified entry
Classify(raw) ==
    [title    |-> sanitize_title(strip_after_year(Strip(raw.title))),
     url      |-> raw.url,
     category |-> Category(Lower(Strip(raw.group)))]

RECURSIVE ParseFrom(_, _, _)
\* the loop body with seen_titles.add(title) moved out of the if of line 153:
\* a title counts as seen from its first block on, with or without a URL
ParseStepSeenFirst(blocks, i, seen_titles, e) ==
    IF e.url # "" /\ e.title \notin seen_titles
    THEN <<e>> \o ParseFrom(blocks, i + 1, seen_titles \cup {e.title})
    ELSE ParseFrom(blocks, i + 1, seen_titles \cup {e.title})

\* lines 143-155: e is the classified block at position i
ParseStep(blocks, i, seen_titles, e) ==
    IF e.url # "" /\ e.title \notin seen_titles
    THEN <<e>> \o ParseFrom(blocks, i + 1, seen_titles \cup {e.title})
    ELSE ParseFrom(blocks, i + 1, seen_titles)

\* the loop of parse_m3u_async over the blocks from position i on
ParseFrom(blocks, i, seen_titles) ==
    IF i > Len(blocks) THEN << >>
    ELSE ParseStep(blocks, i, seen_titles, Classify(blocks[i]))

parse_m3u(blocks) == ParseFrom(blocks, 1, {})

(***************************************************************************)
(* The playlist cache: a dict in insertion order, as a sequence of         *)
(* [title, val]; val is [dict |-> TRUE, url, path] for {"url":, "path":}   *)
(* and [dict |-> FALSE, url, path |-> << >>] for a bare URL string.        *)
(***************************************************************************)
CacheTitles(c) == {c[i].title : i \in 1..Len(c)}

CacheGet(c, t) == c[CHOOSE i \in 1..Len(c) : c[i].title = t].val

\* c[t] = v
CachePut(c, t, v) ==
    IF t \in CacheTitles(c)
    THEN [i \in 1..Len(c) |-> IF c[i].title = t THEN [title |-> t, val |-> v] ELSE c[i]]
    ELSE Append(c, [title |-> t, val |-> v])

\* del c[t] for every t of ts
CacheDel(c, ts) == SelectSeq(c, LAMBDA e : e.title \notin ts)

DictVal(url, path) == [dict |-> TRUE, url |-> url, path |-> path]

LegacyVal(url) == [dict |-> FALSE, url |-> url, path |-> << >>]

(***************************************************************************)
(* process_entry up to its os.makedirs call                                *)
(***************************************************************************)
should_ignore_title(title, ignore_list) ==
    \E keyword \in ignore_list : Contains(Lower(title), Lower(keyword))

SkipPlan == [make |-> FALSE, folder |-> << >>, path |-> << >>]

MakePlan(folder, filename) ==
    [make |-> TRUE, folder |-> folder, path |-> Append(folder, filename)]

\* the placement without the reclassification of lines 320-328: every movie
\* goes under the Movies root
MovieBaseInMovies(base_filename, docs, media) ==
    IF Lower(base_filename) \in media THEN SkipPlan
    ELSE MakePlan(Join(<<MOVIES_DIR, base_filename>>), base_filename \o StrmExt)

\* lines 311-340 from base_filename on: docs is TRUE for a documentary
MovieBase(base_filename, docs, media) ==
    IF Lower(base_filename) \in media THEN SkipPlan
    ELSE MakePlan(Join(<<IF docs THEN DOCS_DIR ELSE MOVIES_DIR, base_filename>>),
                  base_filename \o StrmExt)

\* d is extract_movie_details(title)
MovieDetailsPlan(d, docs, media) ==
    MovieBase(IF d.year # << >> THEN d.name \o <<" ", "(">> \o d.year \o <<")">> ELSE d.name,
              docs, media)

\* the movie and documentary branches
MoviePlan(title, docs, media) == MovieDetailsPlan(extract_movie_details(title), docs, media)

\* lines 299-301: the key of the ownership check; parsed is
\* parse_tv_filename(episode_str)
normalized_str(parsed) == raw_key(parsed.show_name, parsed.season_num, parsed.episode_num)

\* lines 295-307
TvParsedPlan(details, parsed, media) ==
    IF ~parsed.ok THEN SkipPlan
    ELSE IF normalized_str(parsed) \in media THEN SkipPlan
    ELSE MakePlan(Join(<<TVSHOWS_DIR, details.show_folder_name, details.season_folder_name>>),
                  details.episode_str \o StrmExt)

\* lines 290-294: details is extract_tv_details(title)
TvDetailsPlan(details, media) ==
    IF ~details.ok THEN SkipPlan
    ELSE TvParsedPlan(details, parse_tv_filename(details.episode_str), media)

TvPlan(title, media) == TvDetailsPlan(extract_tv_details(title), media)

\* the entry reaches the genre lookup of line 319
NeedsGenres(entry, media) ==
    /\ entry.category \notin {"tvshow", "documentary"}
    /\ ~should_ignore_title(entry.title, IGNORE_MOVIES)
    /\ entry.title \notin media

ProcessPlan(entry, media, genres) ==
    IF should_ignore_title(entry.title,
                           IF entry.category = "tvshow" THEN IGNORE_TVSHOWS ELSE IGNORE_MOVIES)
    THEN SkipPlan
    ELSE IF entry.title \in media THEN SkipPlan
    ELSE IF entry.category = "tvshow" THEN TvPlan(entry.title, media)
    ELSE IF entry.category = "documentary" THEN MoviePlan(entry.title, TRUE, media)
    ELSE MoviePlan(entry.title, "Documentary" \in genres, media)

(***************************************************************************)
(* The output tree: folders is the set of directories, files maps each    *)
(* pointer file to its content                                             *)
(***************************************************************************)
Under(d, fs) == {p \in DOMAIN fs : IsPrefix(d, p)}

\* shutil.rmtree(d) for every d of ds
RmFolders(ds, dirs) == {f \in dirs : \A d \in ds : ~IsPrefix(d, f)}

RmFiles(ds, fs) == [p \in {q \in DOMAIN fs : \A d \in ds : ~IsPrefix(d, q)} |-> fs[p]]

\* os.remove(p) for every p of ps
Unlink(ps, fs) == [p \in (DOMAIN fs) \ ps |-> fs[p]]

\* open(path, "w").write(url + "\n")
WriteFile(fs, path, url) == [p \in (DOMAIN fs) \cup {path} |-> IF p = path THEN <<url, "\n">> ELSE fs[p]]

(***************************************************************************)
(* The cleanup passes as functions of the cache, the tree and the set of   *)
(* paths whose deletion raises                                             *)
(***************************************************************************)
\* current_titles of line 384
CurrentTitles(current_entries) ==
    {normalize_title_for_cleanup(current_entries[i].title) : i \in 1..Len(current_entries)}

StaleAmong(c, current_titles) ==
    {t \in CacheTitles(c) : normalize_title_for_cleanup(t) \notin current_titles}

\* the titles cleanup_removed_entries_from_cache finds stale
StaleTitles(c, current_entries) == StaleAmong(c, CurrentTitles(current_entries))

\* titles_to_remove: the stale titles whose value is a dict
RemovedTitles(c, current_entries) ==
    {t \in StaleTitles(c, current_entries) : CacheGet(c, t).dict}

\* the parent_dir of every title to remove that exists: what rmtree is called on
RemovedDirs(c, current_entries, dirs) ==
    {Dirname(CacheGet(c, t).path) :
        t \in {u \in RemovedTitles(c, current_entries) : CacheGet(c, u).path # << >>}} \cap dirs

\* lines 427-432: parsed is parse_tv_filename(title)
PaddedKey(title, parsed) ==
    IF parsed.ok
    THEN tv_key(parsed.show_name, parsed.season_num, parsed.episode_num)
    ELSE Lower(sanitize_title(strip_after_year(title)))

\* the normalized_key of cleanup_strm_files_when_media_exists
media_exists_key(title) == PaddedKey(title, parse_tv_filename(title))

\* the first position from i on whose entry.get("path") raises AttributeError
\* (a bare string whose key is in existing_media), or 0
RECURSIVE FirstBadFrom(_, _, _)
FirstBadFrom(c, media, i) ==
    IF i > Len(c) THEN 0
    ELSE IF ~c[i].val.dict /\ media_exists_key(c[i].title) \in media THEN i
    ELSE FirstBadFrom(c, media, i + 1)

FirstBadEntry(c, media) == FirstBadFrom(c, media, 1)

\* the positions up to last whose key is in existing_media
HitsUpTo(c, media, last) == {i \in 1..last : media_exists_key(c[i].title) \in media}

\* the positions the loop of cleanup_strm_files_when_media_exists appends to
\* titles_to_remove before it ends (bad = 0) or raises at position bad
MediaHitsBefore(c, media, bad) == HitsUpTo(c, media, IF bad = 0 THEN Len(c) ELSE bad - 1)

MediaHits(c, media) == MediaHitsBefore(c, media, FirstBadEntry(c, media))

\* the files os.remove is called on by that loop
MediaHitFiles(c, media, fs) ==
    {c[i].val.path : i \in {j \in MediaHits(c, media) : c[j].val.path # << >>}} \cap DOMAIN fs

\* lines 451-456: base is os.path.splitext(filename)[0]
ScanBaseKey(base) == PaddedKey(base, parse_tv_filename(base))

\* the norm of cleanup_strm_files_by_scan for a pointer file name
scan_key(filename) == ScanBaseKey(splitext(filename).base)

\* the files cleanup_strm_files_by_scan calls os.remove on, over the three roots
ScanHitFiles(media, fs) ==
    {p \in DOMAIN fs : /\ \E r \in Roots : IsPrefix(r, p)
                       /\ IsStrm(p[Len(p)])
                       /\ scan_key(p[Len(p)]) \in media}

folder_contains_strm(directory, fs) ==
    \E p \in DOMAIN fs : IsPrefix(directory, p) /\ p # directory /\ IsStrm(p[Len(p)])

\* the walk without the test of lines 414-415 that skips root_directory
EmptyDirsWithRoot(dirs, fs) == {d \in dirs : ~folder_contains_strm(d, fs)}

\* the folders cleanup_empty_or_invalid_folders calls rmtree on
EmptyDirs(dirs, fs) == {d \in dirs : d \notin Roots /\ ~folder_contains_strm(d, fs)}

\* rmtree(d) succeeds when neither d nor anything below it is in failing
PrunedDirs(dirs, fs, failing) ==
    {d \in EmptyDirs(dirs, fs) : \A f \in failing : ~IsPrefix(d, f)}

\* The four passes when no deletion fails, on s = [cache, folders, files,
\* raised]; raised: an exception has ended the sequence of passes.
\* cleanup_removed_entries_from_cache(cache, entries)
RemovedPass(s, entries) ==
    IF s.raised THEN s
    ELSE [cache   |-> CacheDel(s.cache, RemovedTitles(s.cache, entries)),
          folders |-> RmFolders(RemovedDirs(s.cache, entries, s.folders), s.folders),
          files   |-> RmFiles(RemovedDirs(s.cache, entries, s.folders), s.files),
          raised  |-> FALSE]

\* cleanup_strm_files_when_media_exists(cache, media)
MediaExistsPass(s, media) ==
    IF s.raised THEN s
    ELSE [cache   |-> IF FirstBadEntry(s.cache, media) = 0
                      THEN CacheDel(s.cache, {s.cache[i].title : i \in MediaHits(s.cache, media)})
                      ELSE s.cache,
          folders |-> s.folders,
          files   |-> Unlink(MediaHitFiles(s.cache, media, s.files), s.files),
          raised  |-> FirstBadEntry(s.cache, media) # 0]

\* cleanup_strm_files_by_scan(directory, media) over the three roots
ScanPass(s, media) ==
    IF s.raised THEN s
    ELSE [s EXCEPT !.files = Unlink(ScanHitFiles(media, s.files), s.files)]

\* cleanup_empty_or_invalid_folders(directory) over the three roots
PrunePass(s) ==
    IF s.raised THEN s
    ELSE [s EXCEPT !.folders = s.folders \ PrunedDirs(s.folders, s.files, {})]

(***************************************************************************)
(* Bounds and the inputs of a run                                          *)
(***************************************************************************)
\* runs of main() in one behaviour
MaxRuns == 2

\* I/O operations that fail in one behaviour
MaxFaults == 1

\* os.cpu_count(), the memory in half gigabytes and config["max_workers"]
MaxCpu == 1

MaxHalfGb == 2

MaxConfigured == 2

G_tv == <<"U","S"," ","|"," ","T","V">>

G_movie == <<"m","o","v","i","e","s">>

G_doc == <<"d","o","c","s">>

T_a11 == <<"a"," ","S","1","E","1">>

T_a12 == <<"a"," ","S","1","E","2">>

\* another rendering of season 1, episode 1 of show a
T_a1_1 == <<"a"," ","S","1"," ","E","1">>

T_m == <<"m"," ","(","2","0","1","0",")">>

T_n == <<"n"," ","(","2","0","1","1",")">>

\* an episode title with its year before the marker and a quality tag after it
T_b == <<"b"," ","(","2","0","1","9",")"," ","S","1","E","5"," ","H","D">>

Block(group, title, url) == [group |-> group, title |-> title, url |-> url]

\* the playlists a run may read: sequences of #EXTINF blocks
Playlists ==
    { << >>,
      <<Block(G_tv, T_a11, "u1")>>,
      <<Block(G_tv, T_a12, "u2")>>,
      <<Block(G_tv, T_a11, "u1"), Block(G_tv, T_a1_1, "u2")>>,
      <<Block(G_movie, T_m, "u1"), Block(G_doc, T_n, "u2")>>,
      <<Block(G_tv, T_b, "u1")>> }

F_a0101 == [root |-> TVSHOWS_DIR, file |-> <<"a"," ","S","0","1","E","0","1",".","m","k","v">>]

F_m == [root |-> MOVIES_DIR, file |-> <<"m"," ","(","2","0","1","0",")",".","m","k","v">>]

\* the contents of EXISTING_MEDIA_DIR a run may find
Libraries == { {}, {F_a0101, F_m} }

\* the longest M3U file of the classifier's specification, in #EXTINF blocks
MaxBlocks == 3

\* T_m followed by a quality tag, which strip_after_year cuts
T_mhd == <<"m"," ","(","2","0","1","0",")"," ","H","D">>

\* blocks with and without a URL, in two groups, under two raw titles of one
\* sanitized title
RawBlocks == {Block(g, t, u) : g \in {G_movie, G_tv}, t \in {T_m, T_mhd}, u \in {"", "u1", "u2"}}

RawPlaylists == UNION {[1..n -> RawBlocks] : n \in 0..MaxBlocks}

\* what the TMDB lookup may answer
GenreResults == { {}, {"Documentary"} }

\* get_movie_genres was not called
NoLookup == [kind |-> "none", genres |-> {}]

\* the ways get_movie_genres ends: a request or response.json() raises and
\* the except clauses return [] ("failed"), the two responses are read
\* ("answered"), or a response is JSON of another shape (a result without
\* "id", a genre without "name", null details) and the KeyError or
\* AttributeError of lines 181-190 leaves the function ("malformed")
LookupOutcomes ==
    {[kind |-> "failed", genres |-> {}], [kind |-> "malformed", genres |-> {}]}
        \cup {[kind |-> "answered", genres |-> g] : g \in GenreResults}

P_m == <<MOVIES_DIR, T_m, T_m \o StrmExt>>

\* a tree without pointer files
NoFiles == [p \in {} |-> << >>]

\* the cache files and trees a first run may find: a fresh install, a cache
\* written by a version that stored bare URLs, and the state an earlier run
\* on the playlist of T_m left
InitStates ==
    { [cache |-> << >>, dirs |-> Roots, fs |-> NoFiles],
      [cache |-> <<[title |-> T_m, val |-> LegacyVal("u0")]>>, dirs |-> Roots, fs |-> NoFiles],
      [cache |-> <<[title |-> T_m, val |-> DictVal("u1", P_m)]>>,
       dirs |-> Roots \cup Ancestors(Dirname(P_m)), fs |-> WriteFile(NoFiles, P_m, "u1")] }

get_recommended_max_workers(cpu_count, half_gb) ==
    LET by_mem == IF half_gb > 1 THEN half_gb ELSE 1
    IN  IF by_mem < cpu_count * 2 THEN by_mem ELSE cpu_count * 2

\* line 475
final_max_workers(configured_workers, recommended_workers) ==
    IF configured_workers < recommended_workers THEN configured_workers ELSE recommended_workers

(***************************************************************************)
(* State                                                                   *)
(***************************************************************************)
VARIABLES
    pc,             \* where main() is: idle, parse, pool, drain, removed, media,
                    \* scan, prune, save, done, crashed
    runs,           \* runs started
    faults,         \* I/O operations that have failed
    cacheFile,      \* CACHE_FILE
    mediaFile,      \* EXISTING_MEDIA_CACHE_FILE
    folders, files, \* the output tree
    DRY_RUN,        \* config["dry_run"]
    max_workers,    \* final_max_workers of line 475
    cache, existing_media, vod_entries,   \* the locals of main()
    tasks,          \* the futures of create_strm_files
    consumed,       \* the futures as_completed has yielded
    crashAt,        \* the step an exception left main() from
    m3u,            \* the #EXTINF blocks this run read from the M3U file
    start,          \* history: the library-key file and the tree the run found
    cache0,         \* history: the cache load_cache returned
    fsOps,          \* history: what the creation pass of this run changed on disk
    prev,           \* history: the previous run
    before,         \* history: the cache and the files before the last cleanup pass
    delFailed,      \* history: deletions that raised in this run
    prevFailed,     \* history: deletions that raised in the previous run
    delTried        \* history: the paths this run called rmtree or os.remove on

vars == <<pc, runs, faults, cacheFile, mediaFile, folders, files, DRY_RUN,
          max_workers, cache, existing_media, vod_entries, tasks, consumed, crashAt,
          m3u, start, cache0, fsOps, prev, before, delFailed, prevFailed, delTried>>

persisted == <<cacheFile, mediaFile>>

tree == <<folders, files>>

locals == <<DRY_RUN, max_workers, cache, existing_media, vod_entries>>

pool == <<tasks, consumed>>

history == <<m3u, start, cache0, fsOps, prev, before, delFailed, prevFailed, delTried>>

NoRun == [entries |-> << >>, media |-> {}, outcome |-> "idle", faults |-> 0]

NoPass == [pass |-> "none", cache |-> << >>, files |-> NoFiles]

\* what a run finds when it starts
Found == [media |-> mediaFile, folders |-> folders, files |-> files]

Init ==
    /\ pc = "idle"
    /\ runs = 0
    /\ faults = 0
    /\ \E s \in InitStates :
          /\ cacheFile = s.cache
          /\ folders = s.dirs
          /\ files = s.fs
    /\ mediaFile = {}
    /\ DRY_RUN \in BOOLEAN
    /\ \E cpu_count \in 1..MaxCpu, half_gb \in 0..MaxHalfGb, configured \in 1..MaxConfigured :
          max_workers = final_max_workers(configured, get_recommended_max_workers(cpu_count, half_gb))
    /\ cache = << >>
    /\ existing_media = {}
    /\ vod_entries = << >>
    /\ tasks = << >>
    /\ consumed = {}
    /\ crashAt = "none"
    /\ m3u = << >>
    /\ start = Found
    /\ cache0 = << >>
    /\ fsOps = {}
    /\ prev = NoRun
    /\ before = NoPass
    /\ delFailed = {}
    /\ prevFailed = {}
    /\ delTried = {}

(***************************************************************************)
(* main(): start of a run                                                  *)
(***************************************************************************)
\* the future of one submitted entry
Queued == [st |-> "queued", ok |-> FALSE, path |-> << >>, lookup |-> NoLookup]

\* line 468 without the union: the file is replaced by the keys of the scan
ScannedOnly(saved, scanned) == scanned

\* lines 467-468: the saved keys united with those of the scan
combined_existing(saved, scanned) == saved \cup scanned

\* line 26: config.json cannot be read and the script ends with the
\* exception before any other statement of it has run
LoadConfigFails ==
    /\ pc \in {"idle", "done", "crashed"}
    /\ runs < MaxRuns
    /\ faults < MaxFaults
    /\ runs' = runs + 1
    /\ faults' = faults + 1
    /\ pc' = "crashed"
    /\ crashAt' = "config"
    /\ cache' = << >>
    /\ existing_media' = {}
    /\ vod_entries' = << >>
    /\ tasks' = << >>
    /\ consumed' = {}
    /\ m3u' = << >>
    /\ start' = Found
    /\ cache0' = cacheFile
    /\ fsOps' = {}
    /\ prev' = [entries |-> vod_entries, media |-> existing_media, outcome |-> pc,
                faults |-> faults]
    /\ before' = NoPass
    /\ prevFailed' = delFailed
    /\ delFailed' = {}
    /\ delTried' = {}
    /\ UNCHANGED <<persisted, tree, DRY_RUN, max_workers>>

\* lines 26-45 and 466-470: the roots are made, the cache is loaded, the
\* library is scanned and its keys are saved
StartRun(lib) ==
    /\ pc \in {"idle", "done", "crashed"}
    /\ runs < MaxRuns
    /\ runs' = runs + 1
    /\ pc' = "parse"
    /\ folders' = folders \cup Roots
    /\ cache' = cacheFile
    /\ existing_media' = combined_existing(mediaFile, build_existing_media_cache(lib))
    /\ mediaFile' = existing_media'
    /\ vod_entries' = << >>
    /\ tasks' = << >>
    /\ consumed' = {}
    /\ crashAt' = "none"
    /\ m3u' = << >>
    /\ start' = Found
    /\ cache0' = cacheFile
    /\ fsOps' = {}
    /\ prev' = [entries |-> vod_entries, media |-> existing_media, outcome |-> pc,
                faults |-> faults]
    /\ before' = NoPass
    /\ prevFailed' = delFailed
    /\ delFailed' = {}
    /\ delTried' = {}
    /\ UNCHANGED <<faults, cacheFile, files, DRY_RUN, max_workers>>

\* line 471 and the submit loop of create_strm_files
ParseM3U(blocks) ==
    /\ pc = "parse"
    /\ pc' = "pool"
    /\ m3u' = blocks
    /\ vod_entries' = parse_m3u(blocks)
    /\ tasks' = [i \in 1..Len(vod_entries') |-> Queued]
    /\ UNCHANGED <<runs, faults, persisted, tree, DRY_RUN, max_workers, cache,
                   existing_media, consumed, crashAt, start, cache0, fsOps, prev, before,
                   delFailed, prevFailed, delTried>>

\* line 471 when the playlist cannot be opened: main() ends with the exception
ParseM3UFails ==
    /\ pc = "parse"
    /\ faults < MaxFaults
    /\ faults' = faults + 1
    /\ pc' = "crashed"
    /\ crashAt' = "parse"
    /\ UNCHANGED <<runs, persisted, tree, locals, pool, history>>

(***************************************************************************)
(* create_strm_files: the worker threads                                   *)
(***************************************************************************)
Running == {i \in 1..Len(tasks) : tasks[i].st = "open"}

FsOp(title, op, path) == [title |-> title, op |-> op, path |-> path]

\* process_entry from os.makedirs on, plan being its ProcessPlan and lookup
\* what get_movie_genres did
RunPlan(i, plan, lookup, mkdir_fails) ==
    /\ mkdir_fails => plan.make /\ faults < MaxFaults
    /\ IF ~plan.make
       THEN /\ tasks' = [tasks EXCEPT ![i] = [st |-> "done", ok |-> FALSE, path |-> << >>,
                                              lookup |-> lookup]]
            /\ UNCHANGED <<faults, folders, fsOps>>
       ELSE IF mkdir_fails
       THEN /\ tasks' = [tasks EXCEPT ![i] = [st |-> "raised", ok |-> FALSE, path |-> plan.path,
                                              lookup |-> lookup]]
            /\ faults' = faults + 1
            /\ UNCHANGED <<folders, fsOps>>
       ELSE /\ tasks' = [tasks EXCEPT ![i] = [st |-> IF DRY_RUN THEN "done" ELSE "open",
                                              ok |-> DRY_RUN, path |-> plan.path,
                                              lookup |-> lookup]]
            /\ folders' = folders \cup Ancestors(plan.folder)
            /\ fsOps' = fsOps \cup {FsOp(vod_entries[i].title, "mkdir", d) :
                                       d \in Ancestors(plan.folder) \ folders}
            /\ UNCHANGED faults

\* line 319 when get_movie_genres raises: the exception leaves process_entry
LookupRaises(i, lookup) ==
    /\ faults < MaxFaults
    /\ faults' = faults + 1
    /\ tasks' = [tasks EXCEPT ![i] = [st |-> "raised", ok |-> FALSE, path |-> << >>,
                                      lookup |-> lookup]]
    /\ UNCHANGED <<folders, fsOps>>

\* a free worker takes the oldest queued entry and runs process_entry up to
\* and including os.makedirs (lines 276-336); lookup: how get_movie_genres
\* ends when the entry reaches it; mkdir_fails: os.makedirs raises
TaskRun(i, lookup, mkdir_fails) ==
    /\ pc \in {"pool", "drain"}
    /\ i \in 1..Len(tasks)
    /\ tasks[i].st = "queued"
    /\ \A j \in 1..(i - 1) : tasks[j].st # "queued"
    /\ Cardinality(Running) < max_workers
    /\ lookup # NoLookup <=> NeedsGenres(vod_entries[i], existing_media)
    /\ IF lookup.kind = "malformed"
       THEN ~mkdir_fails /\ LookupRaises(i, lookup)
       ELSE RunPlan(i, ProcessPlan(vod_entries[i], existing_media, lookup.genres), lookup,
                    mkdir_fails)
    /\ UNCHANGED <<pc, runs, persisted, files, locals, consumed, crashAt, m3u, start, cache0,
                   prev, before, delFailed, prevFailed, delTried>>

\* lines 345-352: the pointer file is written, or open() raises and the task
\* returns None
TaskWrite(i, write_fails) ==
    /\ pc \in {"pool", "drain"}
    /\ i \in 1..Len(tasks)
    /\ tasks[i].st = "open"
    /\ write_fails => faults < MaxFaults
    /\ IF write_fails
       THEN /\ tasks' = [tasks EXCEPT ![i].st = "done"]
            /\ faults' = faults + 1
            /\ UNCHANGED <<files, fsOps>>
       ELSE /\ tasks' = [tasks EXCEPT ![i].st = "done", ![i].ok = TRUE]
            /\ files' = WriteFile(files, tasks[i].path, vod_entries[i].url)
            /\ fsOps' = fsOps \cup {FsOp(vod_entries[i].title, "write", tasks[i].path)}
            /\ UNCHANGED faults
    /\ UNCHANGED <<pc, runs, persisted, folders, locals, consumed, crashAt, m3u, start,
                   cache0, prev, before, delFailed, prevFailed, delTried>>

(***************************************************************************)
(* create_strm_files: the main thread                                      *)
(***************************************************************************)
\* lines 369-373 for a future that returned
Collect(i) ==
    /\ pc = "pool"
    /\ i \in 1..Len(tasks)
    /\ i \notin consumed
    /\ tasks[i].st = "done"
    /\ consumed' = consumed \cup {i}
    /\ cache' = IF tasks[i].ok
                THEN CachePut(cache, vod_entries[i].title,
                              DictVal(vod_entries[i].url, tasks[i].path))
                ELSE cache
    /\ UNCHANGED <<pc, runs, faults, persisted, tree, DRY_RUN, max_workers,
                   existing_media, vod_entries, tasks, crashAt, history>>

\* line 370 for a future whose task raised: future.result() raises it again
\* and the with block waits for the workers
CollectRaise(i) ==
    /\ pc = "pool"
    /\ i \in 1..Len(tasks)
    /\ i \notin consumed
    /\ tasks[i].st = "raised"
    /\ consumed' = consumed \cup {i}
    /\ pc' = "drain"
    /\ UNCHANGED <<runs, faults, persisted, tree, locals, tasks, crashAt, history>>

\* the executor has shut down: the exception leaves main()
PoolAbort ==
    /\ pc = "drain"
    /\ \A i \in 1..Len(tasks) : tasks[i].st \in {"done", "raised"}
    /\ pc' = "crashed"
    /\ crashAt' = "pool"
    /\ UNCHANGED <<runs, faults, persisted, tree, locals, pool, history>>

\* line 480: save_cache after the creation pass
SaveCacheAfterCreate ==
    /\ pc = "pool"
    /\ consumed = 1..Len(tasks)
    /\ cacheFile' = cache
    /\ pc' = "removed"
    /\ UNCHANGED <<runs, faults, mediaFile, tree, locals, pool, crashAt, history>>

(***************************************************************************)
(* main(): the cleanup passes                                              *)
(***************************************************************************)
\* the sets of paths of which at most the remaining number of faults fail
FailSets(candidates) == {F \in SUBSET candidates : faults + Cardinality(F) <= MaxFaults}

Failure(pass, F) == {[pass |-> pass, path |-> p] : p \in F}

\* what every cleanup pass leaves in the history: tried are the paths it calls
\* rmtree or os.remove on, failing those whose call raises
Deleting(pass, tried, failing) ==
    /\ faults' = faults + Cardinality(failing)
    /\ before' = [pass |-> pass, cache |-> cache, files |-> files]
    /\ delTried' = delTried \cup tried
    /\ delFailed' = delFailed \cup Failure(pass, failing)
    /\ UNCHANGED <<runs, persisted, DRY_RUN, max_workers, existing_media, vod_entries, pool,
                   m3u, start, cache0, fsOps, prev, prevFailed>>

\* lines 385-404: tried are the folders rmtree is called on
RemoveDirs(tried) ==
    \E failing \in FailSets(tried) :
        /\ Deleting("removed", tried, failing)
        /\ folders' = RmFolders(tried \ failing, folders)
        /\ files' = RmFiles(tried \ failing, files)
        /\ cache' = CacheDel(cache, RemovedTitles(cache, vod_entries))
        /\ pc' = "media"
        /\ UNCHANGED crashAt

\* line 483
CleanupRemoved ==
    /\ pc = "removed"
    /\ RemoveDirs(RemovedDirs(cache, vod_entries, folders))

\* lines 425-444: tried are the files os.remove is called on; a bare string
\* whose key is in existing_media, at position bad, ends the loop and main()
\* with AttributeError
RemoveSuperseded(tried, bad) ==
    \E failing \in FailSets(tried) :
        /\ Deleting("media", tried, failing)
        /\ files' = Unlink(tried \ failing, files)
        /\ IF bad = 0
           THEN /\ cache' = CacheDel(cache, {cache[i].title : i \in MediaHitsBefore(cache, existing_media, bad)})
                /\ pc' = "scan"
                /\ UNCHANGED crashAt
           ELSE /\ pc' = "crashed"
                /\ crashAt' = "media"
                /\ UNCHANGED cache
        /\ UNCHANGED folders

\* line 485
CleanupMediaExists ==
    /\ pc = "media"
    /\ RemoveSuperseded(MediaHitFiles(cache, existing_media, files),
                        FirstBadEntry(cache, existing_media))

\* lines 447-462: tried are the files os.remove is called on
RemoveScanned(tried) ==
    \E failing \in FailSets(tried) :
        /\ Deleting("scan", tried, failing)
        /\ files' = Unlink(tried \ failing, files)
        /\ pc' = "prune"
        /\ UNCHANGED <<folders, cache, crashAt>>

\* lines 487-488: cleanup_strm_files_by_scan over the three roots
CleanupByScan ==
    /\ pc = "scan"
    /\ RemoveScanned(ScanHitFiles(existing_media, files))

\* lines 413-421: tried are the folders rmtree is called on
RemoveEmpty(tried) ==
    \E failing \in FailSets(tried) :
        /\ Deleting("prune", tried, failing)
        /\ folders' = folders \ PrunedDirs(folders, files, failing)
        /\ pc' = "save"
        /\ UNCHANGED <<files, cache, crashAt>>

\* lines 490-491: cleanup_empty_or_invalid_folders over the three roots
CleanupEmptyFolders ==
    /\ pc = "prune"
    /\ RemoveEmpty(EmptyDirs(folders, files))

\* line 492
SaveCacheAfterCleanup ==
    /\ pc = "save"
    /\ cacheFile' = cache
    /\ pc' = "done"
    /\ UNCHANGED <<runs, faults, mediaFile, tree, locals, pool, crashAt, history>>

Next ==
    \/ LoadConfigFails
    \/ \E lib \in Libraries : StartRun(lib)
    \/ \E blocks \in Playlists : ParseM3U(blocks)
    \/ ParseM3UFails
    \/ \E i \in 1..Len(tasks), lookup \in LookupOutcomes \cup {NoLookup}, mkdir_fails \in BOOLEAN :
          TaskRun(i, lookup, mkdir_fails)
    \/ \E i \in 1..Len(tasks), write_fails \in BOOLEAN : TaskWrite(i, write_fails)
    \/ \E i \in 1..Len(tasks) : Collect(i)
    \/ \E i \in 1..Len(tasks) : CollectRaise(i)
    \/ PoolAbort
    \/ SaveCacheAfterCreate
    \/ CleanupRemoved
    \/ CleanupMediaExists
    \/ CleanupByScan
    \/ CleanupEmptyFolders
    \/ SaveCacheAfterCleanup

Spec == Init /\ [][Next]_vars

\* one invocation of the script up to the end of create_strm_files
FirstRun(lib) == runs = 0 /\ StartRun(lib)

CreationPass ==
    \/ \E lib \in Libraries : FirstRun(lib)
    \/ \E blocks \in Playlists : ParseM3U(blocks)
    \/ \E i \in 1..Len(tasks), lookup \in LookupOutcomes \cup {NoLookup}, mkdir_fails \in BOOLEAN :
          TaskRun(i, lookup, mkdir_fails)
    \/ \E i \in 1..Len(tasks), write_fails \in BOOLEAN : TaskWrite(i, write_fails)
    \/ \E i \in 1..Len(tasks) : Collect(i)
    \/ \E i \in 1..Len(tasks) : CollectRaise(i)
    \/ PoolAbort
    \/ SaveCacheAfterCreate

SpecCreation == Init /\ [][CreationPass]_vars

\* the classifier alone: one start of the script on a fresh install with an
\* empty library, on any M3U file of at most MaxBlocks blocks
ParseInit == Init /\ ~DRY_RUN /\ cacheFile = << >> /\ max_workers = 1

ParseNext ==
    \/ FirstRun({})
    \/ \E blocks \in RawPlaylists : ParseM3U(blocks)
    \/ ParseM3UFails

SpecParse == ParseInit /\ [][ParseNext]_vars

\* every run of the script with one worker and dry_run off: the pool size and
\* the dry run do not reach the library-key file
SerialInit == Init /\ ~DRY_RUN /\ max_workers = 1

SpecSerial == SerialInit /\ [][Next]_vars

(***************************************************************************)
(* The claims of the specification                                         *)
(***************************************************************************)
\* the titles of a list of classified entries
Titles(entries) == {entries[i].title : i \in 1..Len(entries)}

\* the entry of the current playlist with the given title is cached by
\* load_cache with the same URL
CachedPair(title) ==
    /\ title \in CacheTitles(cache0)
    /\ \E i \in 1..Len(vod_entries) :
          vod_entries[i].title = title /\ CacheGet(cache0, title).url = vod_entries[i].url

\* C1: a second run on the same classified entries and the same library keys,
\* with the cache the first run saved, changes nothing on disk (no folder
\* made, no pointer written) for a title whose {title: url} pair is cached.
C1_IdempotentReconcile ==
    (/\ runs = 2 /\ prev.outcome = "done" /\ faults = 0 /\ ~DRY_RUN
     /\ pc \notin {"idle", "parse"}
     /\ prev.entries = vod_entries /\ prev.media = existing_media)
    => \A o \in fsOps : ~CachedPair(o.title)

\* the IdentityKey of a title or of a library key, season and episode
\* zero-padded alike
IdentityKey(text) == media_exists_key(text)

\* C2: the creation pass writes no pointer file for an entry whose
\* IdentityKey, episodes compared after zero-padding, is among the keys of the
\* library scanner.
C2_NoOrphanCreation ==
    \A o \in fsOps :
        o.op = "write" => IdentityKey(o.title) \notin {IdentityKey(k) : k \in existing_media}

\* C3: after a full run on P1 and a full run on a playlist P2 of other
\* titles, the pointer files on disk are exactly those of P2's entries (the
\* entries the creation pass skipped left aside).
C3_Convergence ==
    (/\ runs = 2 /\ pc = "done" /\ prev.outcome = "done" /\ faults = 0 /\ ~DRY_RUN
     /\ existing_media = {}
     /\ Titles(prev.entries) \cap Titles(vod_entries) = {})
    => DOMAIN files = {tasks[i].path : i \in {j \in 1..Len(tasks) : tasks[j].ok}}

\* the key the creation pass checks ownership with
CreationKey(title) == normalized_str(parse_tv_filename(extract_tv_details(title).episode_str))

\* C4: for an episode of the playlist and a library key of the same episode
\* (same show, same season and episode numbers, whatever the leading zeros and
\* the wording of the marker) the library scanner, the ownership check of the
\* creation pass, the removed-entry cleanup, the superseded-by-library cleanup
\* and the orphan scan all derive one and the same key.
C4_KeyStability ==
    \A i \in 1..Len(vod_entries) : \A k \in existing_media :
        (/\ extract_tv_details(vod_entries[i].title).ok
         /\ IdentityKey(k) = IdentityKey(vod_entries[i].title))
        => /\ CreationKey(vod_entries[i].title) = k
           /\ normalize_title_for_cleanup(vod_entries[i].title) = k
           /\ media_exists_key(vod_entries[i].title) = k
           /\ scan_key(extract_tv_details(vod_entries[i].title).episode_str \o StrmExt) = k

\* the entries of a cache, whatever their order
Entries(c) == {c[i] : i \in 1..Len(c)}

\* the {url, path} entries the superseded-by-library pass is to drop: those
\* whose normalized key is a library key
Superseded(c, media) == {e \in Entries(c) : e.val.dict /\ media_exists_key(e.title) \in media}

\* C5: after the superseded-by-library pass no {url, path} entry whose
\* normalized key is a library key is left in the cache and its pointer file
\* is gone (unless os.remove failed on it); every other cache entry and every
\* other pointer file is as it was before the pass.
C5_SupersededCleanup ==
    (before.pass = "media" /\ ~DRY_RUN)
    => /\ \A e \in Superseded(before.cache, existing_media) :
             /\ e.title \notin CacheTitles(cache)
             /\ e.val.path \in DOMAIN files => [pass |-> "media", path |-> e.val.path] \in delFailed
       /\ \A e \in Entries(before.cache) \ Superseded(before.cache, existing_media) :
             e \in Entries(cache)
       /\ \A q \in DOMAIN before.files :
             (\A e \in Superseded(before.cache, existing_media) : e.val.path # q)
             => q \in DOMAIN files /\ files[q] = before.files[q]

\* the entries whose task returned a pointer path
Created == {i \in 1..Len(tasks) : tasks[i].ok}

\* the last entry of the list whose pointer is the given path: the one whose
\* URL a pool of one worker leaves in the file
LastWriter(path) ==
    CHOOSE i \in Created : tasks[i].path = path /\ \A j \in Created : tasks[j].path = path => j <= i

\* C6: after the creation pass every pointer file holds what a pool of one
\* worker writes, the URL of the last entry of the list that resolves to its
\* path, whatever the pool size and the interleaving of the tasks.
C6_PoolSizeIndependence ==
    (pc = "removed" /\ faults = 0 /\ ~DRY_RUN)
    => \A i \in Created :
          files[tasks[i].path] = <<vod_entries[LastWriter(tasks[i].path)].url, "\n">>

\* C7: when the creation pass has ended, the cache holds {url, path} for
\* every task that returned a pointer path.
C7_NoLostUpdate ==
    (/\ ~DRY_RUN
     /\ \A i \in 1..Len(tasks) : tasks[i].lookup.kind # "malformed"
     /\ pc = "removed" \/ (pc = "crashed" /\ crashAt = "pool"))
    => \A i \in Created :
          /\ vod_entries[i].title \in CacheTitles(cache)
          /\ CacheGet(cache, vod_entries[i].title) = DictVal(vod_entries[i].url, tasks[i].path)

\* the entries whose folder creation or pointer write failed
FailedCreation ==
    {i \in 1..Len(tasks) : /\ tasks[i].path # << >>
                           /\ \/ tasks[i].st = "raised"
                              \/ tasks[i].st = "done" /\ ~tasks[i].ok}

\* C8: a failed folder creation or pointer write records nothing in the cache
\* for its entry, and the run goes on: main() does not end in the creation
\* pass and reaches its cleanup passes.
C8_CreationFailureContained ==
    /\ FailedCreation # {} => ~(pc = "crashed" /\ crashAt = "pool")
    /\ pc = "removed" =>
          \A i \in FailedCreation :
              vod_entries[i].title \in CacheTitles(cache)
              => /\ vod_entries[i].title \in CacheTitles(cache0)
                 /\ CacheGet(cache, vod_entries[i].title) = CacheGet(cache0, vod_entries[i].title)

\* C9: a folder whose rmtree failed in the removed-entry cleanup of the
\* previous run, that still holds a pointer file and is the folder of no entry
\* of the current playlist, is among the paths the removed-entry cleanup of
\* this run calls rmtree on.
C9_DeletionRetried ==
    (runs = 2 /\ before.pass = "removed")
    => \A f \in prevFailed :
          (/\ f.pass = "removed"
           /\ Under(f.path, before.files) # {}
           /\ \A i \in 1..Len(tasks) : ~IsPrefix(f.path, tasks[i].path))
          => f.path \in delTried

\* C10: no cleanup pass ends the run with an exception on a bare URL string,
\* and after the removed-entry and the superseded-by-library pass every bare
\* URL string is in the cache as it was.
C10_LegacyShapeTolerated ==
    /\ crashAt # "media"
    /\ before.pass \in {"removed", "media"} =>
          \A e \in Entries(before.cache) : ~e.val.dict => e \in Entries(cache)

\* C11: when a run has ended because config.json or the M3U file could not be
\* read, the playlist-cache file and the library-key file hold what they held
\* when the run started, and the output tree has the folders and the pointer
\* files it had then.
C11_StartupFailureBeforeMutation ==
    (pc = "crashed" /\ crashAt \in {"config", "parse"})
    => /\ cacheFile = cache0
       /\ mediaFile = start.media
       /\ folders = start.folders
       /\ files = start.files

\* C12: with dry_run set, the creation pass makes no folder and writes no
\* pointer file, and once it has ended every entry that passed the skip
\* checks is in the cache with its URL and its pointer path.
C12_SimulateMode ==
    DRY_RUN
    => /\ fsOps = {}
       /\ pc = "removed" =>
             \A i \in 1..Len(tasks) :
                 tasks[i].path # << >>
                 => /\ vod_entries[i].title \in CacheTitles(cache)
                    /\ CacheGet(cache, vod_entries[i].title)
                           = DictVal(vod_entries[i].url, tasks[i].path)

\* C13: a task of a tvshow or documentary entry never calls get_movie_genres,
\* and a task of a movie entry that is not ignored and not owned, whose lookup
\* returned, places its pointer under Documentaries when "Documentary" is among
\* the genres returned and under Movies otherwise.
C13_GenreReclassification ==
    \A i \in 1..Len(tasks) :
        /\ vod_entries[i].category \in {"tvshow", "documentary"}
           => tasks[i].lookup = NoLookup
        /\ (/\ tasks[i].st # "queued"
            /\ vod_entries[i].category = "movie"
            /\ ~should_ignore_title(vod_entries[i].title, IGNORE_MOVIES)
            /\ IdentityKey(vod_entries[i].title) \notin existing_media
            /\ tasks[i].lookup.kind # "malformed")
           => /\ tasks[i].lookup.kind \in {"failed", "answered"}
              /\ tasks[i].path # << >>
              /\ tasks[i].path[1] = IF "Documentary" \in tasks[i].lookup.genres
                                    THEN DOCS_DIR ELSE MOVIES_DIR

\* a movie whose lookup answered "Documentary" has its pointer written under
\* Documentaries, next to a documentary entry that was placed without a lookup
C13_Witness ==
    /\ ~DRY_RUN
    /\ \E i \in 1..Len(tasks) :
          /\ vod_entries[i].category = "movie"
          /\ "Documentary" \in tasks[i].lookup.genres
          /\ tasks[i].st = "done" /\ tasks[i].ok
          /\ tasks[i].path[1] = DOCS_DIR
          /\ tasks[i].path \in DOMAIN files
    /\ \E i \in 1..Len(tasks) :
          /\ vod_entries[i].category = "documentary"
          /\ tasks[i].st = "done" /\ tasks[i].ok
          /\ tasks[i].lookup = NoLookup

\* the tasks whose call of get_movie_genres got no genres from the API
LookupFailed == {i \in 1..Len(tasks) : tasks[i].lookup.kind \in {"failed", "malformed"}}

\* C14: a task whose genre lookup failed (a request that raised, an answer
\* that is not JSON, or JSON of another shape than the API's) does not end
\* with the exception: where it places a pointer it places it under Movies,
\* and the creation pass is not left because of it.
C14_GenreLookupFailOpen ==
    \A i \in LookupFailed :
        /\ ~(tasks[i].st = "raised" /\ tasks[i].path = << >>)
        /\ tasks[i].path # << >> => tasks[i].path[1] = MOVIES_DIR
        /\ (pc = "crashed" /\ crashAt = "pool") => \E j \in FailedCreation : tasks[j].st = "raised"

\* the sanitized title parse_m3u_async gives the block at position i
TitleAt(i) == Classify(m3u[i]).title

\* the first block of the M3U file under the title t
FirstBlock(t) == CHOOSE i \in 1..Len(m3u) : TitleAt(i) = t /\ \A j \in 1..(i - 1) : TitleAt(j) # t

\* the blocks that have a URL
WithUrl == {i \in 1..Len(m3u) : m3u[i].url # ""}

\* the first block with a URL under the title t
FirstWithUrl(t) == CHOOSE i \in WithUrl : TitleAt(i) = t /\ \A j \in WithUrl : j < i => TitleAt(j) # t

\* the titles of the classified entries are pairwise distinct and none has an
\* empty URL
DistinctWithUrl ==
    /\ \A i, j \in 1..Len(vod_entries) : vod_entries[i].title = vod_entries[j].title => i = j
    /\ \A i \in 1..Len(vod_entries) : vod_entries[i].url # ""

\* C15 as stated: the classified entries have pairwise distinct titles and
\* non-empty URLs, and each is the first block of the file under its title.
C15_Original ==
    /\ DistinctWithUrl
    /\ \A i \in 1..Len(vod_entries) :
          vod_entries[i] = Classify(m3u[FirstBlock(vod_entries[i].title)])

\* C15: the classified entries have pairwise distinct titles and non-empty
\* URLs, every title of a block with a URL is the title of an entry, and each
\* entry is the first block with a URL under its title, with that block's URL
\* and category.
C15_ClassifierDedup ==
    /\ DistinctWithUrl
    /\ \A k \in WithUrl : \E i \in 1..Len(vod_entries) : vod_entries[i].title = TitleAt(k)
    /\ \A i \in 1..Len(vod_entries) :
          /\ \E k \in WithUrl : TitleAt(k) = vod_entries[i].title
          /\ vod_entries[i] = Classify(m3u[FirstWithUrl(vod_entries[i].title)])

\* a file whose first block has no URL and whose second and third block share
\* its title under two URLs and two groups: the second block is the entry
C15_Witness ==
    /\ Len(m3u) = 3
    /\ m3u[1].url = "" /\ m3u[2].url = "u1" /\ m3u[3].url = "u2"
    /\ m3u[2].title # m3u[3].title /\ m3u[2].group # m3u[3].group
    /\ TitleAt(1) = TitleAt(2) /\ TitleAt(2) = TitleAt(3)
    /\ Len(vod_entries) = 1
    /\ vod_entries[1] = Classify(m3u[2])

\* the pointer path of the episode of T_b: TV Shows/b/Season 1/b S1E5.strm
P_b == <<TVSHOWS_DIR, <<"b">>, <<"S","e","a","s","o","n"," ","1">>,
         <<"b"," ","S","1","E","5">> \o StrmExt>>

\* the blocks of the M3U file that carry T_b under a TV group
EpisodeBlocks == {k \in 1..Len(m3u) : m3u[k].title = T_b /\ m3u[k].group = G_tv}

\* C16: when the M3U file holds the block of "b (2019) S1E5 HD" under a TV
\* group, the episode being neither owned nor ignored, its entry is a tvshow
\* entry whose title still holds the episode marker, and after a creation pass
\* without I/O failure the pointer TV Shows/b/Season 1/b S1E5.strm holds the
\* URL of the block.
C16_EpisodicPlacement ==
    \A k \in EpisodeBlocks :
        /\ \E i \in 1..Len(vod_entries) :
              /\ vod_entries[i].url = m3u[k].url
              /\ vod_entries[i].category = "tvshow"
              /\ parse_tv_filename(vod_entries[i].title).ok
        /\ (pc = "removed" /\ ~DRY_RUN /\ faults = 0)
           => /\ P_b \in DOMAIN files
              /\ files[P_b] = <<m3u[k].url, "\n">>

\* C17: the cache file holds the cache when the creation pass has ended, and
\* after each completed cleanup pass it holds no title that a cleanup pass of
\* the run has removed from the cache.
C17_CacheCheckpoints ==
    /\ pc = "removed" => cacheFile = cache
    /\ pc \in {"media", "scan", "prune", "save"}
       => CacheTitles(cacheFile) \subseteq CacheTitles(cache)

\* C18: the library-key file holds every key it held when the run started,
\* whatever the scan found, and from the scan on it stays the set the run
\* works with: no creation or cleanup step takes a key out of it.
C18_LibraryKeysOnlyGrow ==
    /\ start.media \subseteq mediaFile
    /\ (runs > 0 /\ crashAt # "config") => mediaFile = existing_media

\* a second run has gone through its cleanup passes with the keys the first
\* run had saved still in the file
C18_Witness ==
    /\ runs = 2
    /\ pc = "done"
    /\ before.pass # "none"
    /\ start.media # {}
    /\ start.media \subseteq mediaFile

\* the {url, path} entries of a cache whose title is a title of the current
\* playlist
Current(c) == {e \in Entries(c) : e.val.dict /\ e.title \in Titles(vod_entries)}

\* C19: the removed-entry cleanup deletes the pointer file of no cache entry
\* whose title is in the current playlist: every such pointer that was on
\* disk before the pass is on disk after it, with its content.
C19_RemovedCleanupOnlyStale ==
    before.pass = "removed"
    => \A e \in Current(before.cache) :
          e.val.path \in DOMAIN before.files
          => /\ e.val.path \in DOMAIN files
             /\ files[e.val.path] = before.files[e.val.path]

\* the cache and the tree the cleanup passes of this run start from
Tree == [cache |-> cache, folders |-> folders, files |-> files, raised |-> FALSE]

\* one of the three cache and scan passes, by name
Pass(name, s) ==
    CASE name = "removed" -> RemovedPass(s, vod_entries)
      [] name = "media"   -> MediaExistsPass(s, existing_media)
      [] name = "scan"    -> ScanPass(s, existing_media)

\* the orders of the three passes
Orders ==
    {o \in [1..3 -> {"removed", "media", "scan"}] : \A i, j \in 1..3 : o[i] = o[j] => i = j}

\* the three passes in the order o, then the pruning of empty folders
Cleaned(o, s) == PrunePass(Pass(o[3], Pass(o[2], Pass(o[1], s))))

\* two outcomes with the same cache and the same pointer files
SameOutcome(a, b) == a.cache = b.cache /\ a.files = b.files

\* the order of lines 483-488
MainOrder == <<"removed", "media", "scan">>

\* C20: from the cache and the tree a creation pass leaves, with a cache of
\* {url, path} entries on which no pass raises and with no deletion failing,
\* the removed-entry, superseded-by-library and orphan-scan passes followed by
\* the pruning end, in each of their six orders, with the cache and the
\* pointer files that the order of main() ends with.
C20_CleanupOrderIndependent ==
    (pc = "removed" /\ FirstBadEntry(cache, existing_media) = 0)
    => \A o \in Orders : SameOutcome(Cleaned(o, Tree), Cleaned(MainOrder, Tree))

\* the pointer files of a tree
Pointers(fs) == {p \in DOMAIN fs : IsStrm(p[Len(p)])}

\* the roots are still there and every pointer file that was on disk before
\* the pruning is on disk after it, with its content
PruningKeeps ==
    /\ Roots \subseteq folders
    /\ \A p \in Pointers(before.files) : p \in DOMAIN files /\ files[p] = before.files[p]

\* the folders below which, or on which, an rmtree of the pruning raised
PruneFailed == {d \in folders : \E f \in delFailed : f.pass = "prune" /\ IsPrefix(d, f.path)}

\* C21 as stated: after the pruning every folder below a root has a pointer
\* file in its subtree, the roots exist and no pointer file was deleted.
C21_Original ==
    before.pass = "prune"
    => /\ \A d \in folders \ Roots : folder_contains_strm(d, files)
       /\ PruningKeeps

\* C21: after the pruning every folder below a root has a pointer file in
\* its subtree unless shutil.rmtree raised on it or below it, the roots exist
\* and no pointer file that was on disk before the pass was deleted.
C21_EmptyFolderPruning ==
    before.pass = "prune"
    => /\ \A d \in folders \ (Roots \cup PruneFailed) : folder_contains_strm(d, files)
       /\ PruningKeeps

\* the pruning has removed the show folder of "a" after its season folder was
\* gone, next to a pointer file that it left on disk
C21_Witness ==
    /\ pc = "save"
    /\ delFailed = {}
    /\ <<TVSHOWS_DIR, <<"a">>>> \in delTried
    /\ <<TVSHOWS_DIR, <<"a">>>> \notin folders
    /\ Pointers(files) # {}
    /\ Pointers(files) = Pointers(before.files)

\* C22: when a run has ended after the final save_cache, with dry_run off, no
\* I/O failure so far and the run before it, if any, complete as well, every
\* {url, path} entry of the cache file has its pointer file on disk, holding
\* the URL of the entry followed by a newline.
C22_CacheDiskConsistency ==
    (/\ pc = "done"
     /\ ~DRY_RUN
     /\ faults = 0
     /\ prev.outcome \in {"idle", "done"})
    => \A e \in Entries(cacheFile) :
          e.val.dict
          => /\ e.val.path \in DOMAIN files
             /\ files[e.val.path] = <<e.val.url, "\n">>

====
